---- MODULE Spec2Model ----
(***************************************************************************)
(* A model of the Algo-Trading dashboard: the Streamlit orchestrator       *)
(* (app.py), the data source (data_loader.py), the indicator engine        *)
(* (technical_analysis.py), the strategy evaluator (strategy.py) and the   *)
(* model trainer (ml_models.py).                                           *)
(*                                                                         *)
(* Each component has its own specification (SpecRun, SpecFetch, ...):     *)
(* the variables of the other components stay at their idle values.        *)
(*                                                                         *)
(* Python's None is the string "None" where the value is otherwise a       *)
(* string, and the empty tuple <<>> where it is otherwise a tuple.         *)
(***************************************************************************)
EXTENDS Integers, Sequences, FiniteSets, TLC

VARIABLES
    \* ---- orchestrator (app.py) ----
    session_state,      \* st.session_state: a function from the keys present to their values
    pc,                 \* where the script is: "idle", "loop", "aborted", "stopped"
    selected_tickers,   \* the argument of the run in progress (or of the last run)
    idx,                \* the loop variable i of run_trading_algorithm
    successful_stocks,  \* the local counter of run_trading_algorithm
    progress,           \* the value last given to progress_bar.progress, <<num, den>>
    run_log,            \* per ticker of the run in progress, what process_stock returned
    \* ---- data source (data_loader.py) ----
    hashseed,           \* the process's string-hash salt (PYTHONHASHSEED), fixed per process
    now,                \* the clock datetime.now() reads: a count of instants
    fetch_call,         \* the arguments and the live outcome of the last fetch_stock_data call
    fetch_result,       \* what that call returned
    mock_prev,          \* the last mock generation before that call
    \* ---- model trainer (ml_models.py) ----
    train_df,           \* the frame train_ensemble_models is given
    train_pc,           \* "start", "fit" (in the loop over the models), "done"
    train_X,            \* the rows of ml_df, as positions in the frame given
    train_y,            \* their labels
    n_test,             \* the size of the test set
    fit_log,            \* per model tried so far: whether it raised, its correct predictions
    best_model,         \* best_model
    best_accuracy,      \* best_accuracy, as a number of correct test predictions
    train_return,       \* the tuple returned, <<>> before the return
    \* ---- strategy evaluator (strategy.py) ----
    strat_df,           \* the frame apply_enhanced_trading_strategy is given
    strat_pc,           \* "start", "done"
    strat_signal,       \* the Signal column written to the frame, <<>> if none was
    buy_signals,        \* the frame returned: the rows kept, their Signal and Signal_Type
    \* ---- indicator engine (technical_analysis.py) ----
    ind_arg,            \* the frame the last call of calculate_advanced_indicators was given
    ind_ret,            \* what the last call returned (before any call: the frame to enrich)
    ind_calls,          \* the number of calls made
    ind_raised          \* whether a computation raised in the last call

runVars == <<session_state, pc, selected_tickers, idx, successful_stocks, progress, run_log>>
fetchVars == <<hashseed, now, fetch_call, fetch_result, mock_prev>>

trainVars == <<train_df, train_pc, train_X, train_y, n_test, fit_log, best_model,
               best_accuracy, train_return>>

stratVars == <<strat_df, strat_pc, strat_signal, buy_signals>>

indVars == <<ind_arg, ind_ret, ind_calls, ind_raised>>

vars == <<runVars, fetchVars, trainVars, stratVars, indVars>>

Max(a, b) == IF a >= b THEN a ELSE b
Min(a, b) == IF a <= b THEN a ELSE b
Abs(a) == IF a >= 0 THEN a ELSE 0 - a
Range(s) == {s[i] : i \in DOMAIN s}
NoKeys == [k \in {} |-> FALSE]

\* The positions lo..hi of the rows that satisfy Keep, in increasing order.
RECURSIVE KeptIn(_, _, _)
KeptIn(Keep(_), lo, hi) ==
    IF lo > hi THEN <<>>
    ELSE IF lo = hi THEN (IF Keep(lo) THEN <<lo>> ELSE <<>>)
    ELSE LET mid == (lo + hi) \div 2
         IN  KeptIn(Keep, lo, mid) \o KeptIn(Keep, mid + 1, hi)

\* The running sums of s over the positions lo..hi (np.cumsum, Series.cumsum).
RECURSIVE CumSum(_, _, _)
CumSum(s, lo, hi) ==
    IF lo > hi THEN <<>>
    ELSE IF lo = hi THEN <<s[lo]>>
    ELSE LET mid == (lo + hi) \div 2
             left == CumSum(s, lo, mid)
             right == CumSum(s, mid + 1, hi)
         IN  left \o [k \in 1..Len(right) |-> right[k] + left[Len(left)]]

\* The frame that is None.
NoFrameGiven == [columns |-> {}, rows |-> <<>>, isNone |-> TRUE]

(***************************************************************************)
(* Data source: src/data/data_loader.py                                    *)
(*                                                                         *)
(* Prices are in hundredths (df.round(2)), returns in 1/10000.  numpy's    *)
(* generator is a counter-based integer generator and exp(cumsum(r)) a     *)
(* compounded first-order growth: the model keeps which inputs each value  *)
(* depends on (the seed, the row, the clock), not numpy's digits.          *)
(***************************************************************************)

\* The tickers fetched: one of the ticker_params table and one unknown to it.
FetchTickers == {"RELIANCE.NS", "UNKNOWN.NS"}
Periods == {"6mo", "3mo", "1y"}

\* Bound: the clock runs through the instants 0..MaxInstant.
MaxInstant == 2
\* The day number of instant 0 (a Friday: day % 7 is 0 for Monday).
FirstDay == 403
\* Two instants per day, so that calls differ in the day or in the time of day.
InstantsPerDay == 2
\* Bound: the process's hash salts tried are 1..MaxHashSeed.
MaxHashSeed == 2

\* datetime.now() at an instant: <<day, time of day>>.
DateTimeAt(instant) == <<FirstDay + (instant \div InstantsPerDay), instant % InstantsPerDay>>

\* days = 130 if period == "6mo" else 65 if period == "3mo" else 260
Days(period) == IF period = "6mo" THEN 130 ELSE IF period = "3mo" THEN 65 ELSE 260

\* int(days * 1.4): 182, 91, 364
PaddedDays(period) == (Days(period) * 14) \div 10

\* The business day a date_range of frequency 'B' starts at: start itself, or
\* the Monday after it.
RollForward(day) ==
    IF day % 7 = 5 THEN day + 2 ELSE IF day % 7 = 6 THEN day + 1 ELSE day

\* The k-th business day after the business day `first` (k >= 0).
NthBusinessDay(first, k) ==
    LET w == first % 7
    IN  first + ((w + k) \div 5) * 7 + ((w + k) % 5) - w

\* pd.date_range(start=start_date, end=end_date, freq='B')[:days]: the business
\* days from start to end, each at start's time of day, cut to `days` of them.
date_rng(period, nowDT) ==
    LET first == RollForward(nowDT[1] - PaddedDays(period))
        n == Cardinality({k \in 0..(Days(period) - 1) : NthBusinessDay(first, k) <= nowDT[1]})
    IN  [i \in 1..n |-> <<NthBusinessDay(first, i - 1), nowDT[2]>>]

\* ticker_params.get(ticker, default): base_price, volatility and trend (1/10000)
ticker_params(ticker) ==
    CASE ticker = "RELIANCE.NS" -> [base_price |-> 2400, volatility |-> 250, trend |-> 2]
      [] ticker = "TCS.NS" -> [base_price |-> 3500, volatility |-> 200, trend |-> 3]
      [] ticker = "HDFCBANK.NS" -> [base_price |-> 1600, volatility |-> 300, trend |-> 1]
      [] ticker = "INFY.NS" -> [base_price |-> 1400, volatility |-> 250, trend |-> 2]
      [] ticker = "HINDUNILVR.NS" -> [base_price |-> 2600, volatility |-> 180, trend |-> 1]
      [] OTHER -> [base_price |-> 1000, volatility |-> 250, trend |-> 1]

\* Bound: the seeds are 0..SeedModulus - 1 (2**32 in the source, beyond TLC's
\* integers).
SeedModulus == 65536

\* A number standing for the characters of the ticker.
TickerCode(ticker) ==
    CASE ticker = "RELIANCE.NS" -> 18
      [] ticker = "TCS.NS" -> 20
      [] ticker = "HDFCBANK.NS" -> 8
      [] ticker = "INFY.NS" -> 9
      [] ticker = "HINDUNILVR.NS" -> 7
      [] OTHER -> 21

\* hash(ticker): Python salts str hashes per process.
PyHash(ticker, salt) == ((TickerCode(ticker) * 7919 + salt * 104729) % 1000003) - 500000

\* hash(ticker) % 2**32
SeedOf(ticker, salt) == PyHash(ticker, salt) % SeedModulus

\* The k-th draw after np.random.seed(seed), as an integer in 0..65536.
Draw(seed, k) == (((seed + 31 * k) % 65537) * 75 + 74) % 65537

\* A standard normal draw, in -2..2.
StdNormal(seed, k) == (Draw(seed, k) % 5) - 2

\* Decimal fixed point for the float arithmetic of lines 57-72, which TLC's
\* integers cannot hold: a number is <<a1, ..., a6>> and stands for
\* a1 * B + a2 + a3 / B + a4 / B^2 + a5 / B^3 + a6 / B^4 with B = LimbBase,
\* a2..a6 in 0..B-1 and a1 any integer (16 decimals, against the 15 to 17
\* significant digits of a float).
LimbBase == 10000

\* The number of the coefficients c[1..6] and c[7], of weight 1 / B^5, with
\* the carries taken.
FixNorm(c) ==
    LET s6 == c[6] + (c[7] \div LimbBase)
        s5 == c[5] + (s6 \div LimbBase)
        s4 == c[4] + (s5 \div LimbBase)
        s3 == c[3] + (s4 \div LimbBase)
        s2 == c[2] + (s3 \div LimbBase)
        s1 == c[1] + (s2 \div LimbBase)
    IN  <<s1, s2 % LimbBase, s3 % LimbBase, s4 % LimbBase, s5 % LimbBase,
          s6 % LimbBase>>

\* The integer v
FixInt(v) == FixNorm(<<0, v, 0, 0, 0, 0, 0>>)

\* a + b
FixAdd(a, b) == FixNorm(<<a[1] + b[1], a[2] + b[2], a[3] + b[3], a[4] + b[4],
                          a[5] + b[5], a[6] + b[6], 0>>)

\* a * b, for a product below B^2
FixMul(a, b) ==
    FixNorm(<<a[2] * b[1] + a[1] * b[2],
              a[3] * b[1] + a[2] * b[2] + a[1] * b[3],
              a[4] * b[1] + a[3] * b[2] + a[2] * b[3] + a[1] * b[4],
              a[5] * b[1] + a[4] * b[2] + a[3] * b[3] + a[2] * b[4] + a[1] * b[5],
              a[6] * b[1] + a[5] * b[2] + a[4] * b[3] + a[3] * b[4] + a[2] * b[5]
                  + a[1] * b[6],
              a[6] * b[2] + a[5] * b[3] + a[4] * b[4] + a[3] * b[5] + a[2] * b[6],
              a[6] * b[3] + a[5] * b[4] + a[4] * b[5] + a[3] * b[6]>>)

\* a / d for an integer d in 1..200000
FixDiv(a, d) ==
    LET r1 == a[1] % d
        r2 == (r1 * LimbBase + a[2]) % d
        r3 == (r2 * LimbBase + a[3]) % d
        r4 == (r3 * LimbBase + a[4]) % d
        r5 == (r4 * LimbBase + a[5]) % d
    IN  <<a[1] \div d, (r1 * LimbBase + a[2]) \div d, (r2 * LimbBase + a[3]) \div d,
          (r3 * LimbBase + a[4]) \div d, (r4 * LimbBase + a[5]) \div d,
          (r5 * LimbBase + a[6]) \div d>>

\* a < b
FixLess(a, b) ==
    \E k \in 1..6 : a[k] < b[k] /\ \A j \in 1..(k - 1) : a[j] = b[j]

\* np.exp(x): x is halved ExpHalvings times, the exponential of the small
\* number is summed from its series to ExpTerms terms, and the sum is squared
\* as many times as x was halved.
ExpHalvings == 7
ExpTerms == 12

RECURSIVE ExpSeries(_, _)
ExpSeries(r, k) ==
    IF k > ExpTerms THEN FixInt(1)
    ELSE CHOOSE t \in {FixAdd(FixInt(1), FixDiv(FixMul(r, s), k)) :
                        s \in {ExpSeries(r, k + 1)}} : TRUE

RECURSIVE Squared(_, _)
Squared(v, times) ==
    IF times = 0 THEN v
    ELSE CHOOSE t \in {FixMul(s, s) : s \in {Squared(v, times - 1)}} : TRUE

FixExp(x) == Squared(ExpSeries(FixDiv(x, 2 ^ ExpHalvings), 1), ExpHalvings)

\* DataFrame.round(2) of a price, in hundredths: to the nearest hundredth, a
\* half to the even one.
Round2(v) ==
    LET whole == (v[1] * LimbBase + v[2]) * 100 + (v[3] \div 100)
        rest == v[3] % 100
        more == v[4] # 0 \/ v[5] # 0 \/ v[6] # 0
    IN  IF rest > 50 \/ (rest = 50 /\ (more \/ whole % 2 = 1)) THEN whole + 1 ELSE whole

\* base_price * np.exp(x) (line 63), before the rounding of line 74
ScaledExp(base_price, x) == FixMul(FixInt(base_price), FixExp(x))

\* np.cumsum(returns), as numbers, of the returns drawn, raw (in 1/10000),
\* after returns[i] += 0.1 * returns[i-1], in place, for i = 1..n-1: each
\* return carries a tenth of the one before, a hundredth of the one before
\* that, ...  The returns are summed limb by limb.
CumulativeReturns(raw) ==
    LET n == Len(raw)
        \* the part of returns[i] in the limb `limb` after the ten-thousandths:
        \* the four returns before that reach into it
        term(i, limb, k) == IF i - k >= 1 THEN raw[i - k] * 10 ^ (4 * limb - k) ELSE 0
        carried(i, limb) == term(i, limb, 4 * limb - 3) + term(i, limb, 4 * limb - 2)
                            + term(i, limb, 4 * limb - 1) + term(i, limb, 4 * limb)
        head == CumSum(raw, 1, n)
        tail(limb) == CumSum([i \in 1..n |-> carried(i, limb)], 1, n)
        tail1 == tail(1)
        tail2 == tail(2)
        tail3 == tail(3)
        tail4 == tail(4)
    IN  [i \in 1..n |->
            FixNorm(<<0, 0, head[i], tail1[i], tail2[i], tail3[i], tail4[i]>>)]

\* The prices and volumes generate_enhanced_mock_data draws for n dates from
\* a seed (lines 56-74).  The draws are taken in the source's order: returns,
\* then the Open, High, Low noise, then Volume (n draws each).  The prices
\* are rounded at the end (line 74).
MockPrices(ticker, seed, n) ==
    LET params == ticker_params(ticker)
        raw == [i \in 1..n |-> params.trend + params.volatility * StdNormal(seed, i)]
        cumsum == CumulativeReturns(raw)
        close_prices ==
            [i \in 1..n |-> ScaledExp(params.base_price, cumsum[i])] @@ <<>>
        \* daily_volatility = volatility * 0.5; the noise of Open has the scale
        \* daily_volatility / 2, the noise of High and Low daily_volatility / 3
        \* 1 + z * daily_volatility / 2
        open_noise(z) == FixNorm(<<0, 1, 0, params.volatility * z * 2500, 0, 0, 0>>)
        \* |z * daily_volatility / 3|
        range_noise(z) == FixDiv(FixNorm(<<0, 0, params.volatility * Abs(z), 0, 0, 0, 0>>), 6)
        \* 1 - r
        less(r) == FixNorm(<<0 - r[1], 1 - r[2], 0 - r[3], 0 - r[4], 0 - r[5], 0 - r[6], 0>>)
        maximum(a, b) == IF FixLess(a, b) THEN b ELSE a
        minimum(a, b) == IF FixLess(a, b) THEN a ELSE b
        \* df['Close'].shift(1).fillna(df['Close'].iloc[0]) * (1 + noise)
        Open == [i \in 1..n |->
                    FixMul(close_prices[IF i = 1 THEN 1 ELSE i - 1],
                           open_noise(StdNormal(seed, n + i)))] @@ <<>>
        upper == [i \in 1..n |-> maximum(Open[i], close_prices[i])] @@ <<>>
        lower == [i \in 1..n |-> minimum(Open[i], close_prices[i])] @@ <<>>
        High == [i \in 1..n |->
                    FixMul(upper[i],
                           FixAdd(FixInt(1), range_noise(StdNormal(seed, 2 * n + i))))] @@ <<>>
        Low == [i \in 1..n |->
                   FixMul(lower[i],
                          less(range_noise(StdNormal(seed, 3 * n + i))))] @@ <<>>
    IN  [i \in 1..n |->
            [Open |-> Round2(Open[i]),
             \* the clamps of lines 71-72
             High |-> Round2(maximum(High[i], upper[i])),
             Low |-> Round2(minimum(Low[i], lower[i])),
             Close |-> Round2(close_prices[i]),
             \* np.random.lognormal(15, 0.5).astype(int)
             Volume |-> 1000000 + Draw(seed, 4 * n + i)]]

\* MockPrices for the tickers, seeds and numbers of dates of the calls made,
\* tabulated: the prices do not depend on the dates themselves.
MockPricesDrawn ==
    [a \in {<<ticker, SeedOf(ticker, salt), Len(date_rng(period, DateTimeAt(instant)))>> :
               ticker \in FetchTickers, salt \in 1..MaxHashSeed, period \in Periods,
               instant \in 0..MaxInstant} |->
        MockPrices(a[1], a[2], a[3])] @@ <<>>

\* The frame generate_enhanced_mock_data builds from a seed and a date range.
MockFrame(ticker, seed, dates) ==
    LET n == Len(dates)
        drawn == <<ticker, seed, n>>
        prices == IF drawn \in DOMAIN MockPricesDrawn THEN MockPricesDrawn[drawn]
                  ELSE MockPrices(ticker, seed, n)
    IN  [i \in 1..n |->
            [Date |-> dates[i], Open |-> prices[i].Open, High |-> prices[i].High,
             Low |-> prices[i].Low, Close |-> prices[i].Close,
             Volume |-> prices[i].Volume]]

\* generate_enhanced_mock_data(ticker, period), called at `instant` in a
\* process whose hash salt is `salt`
generate_enhanced_mock_data(ticker, period, instant, salt) ==
    MockFrame(ticker, SeedOf(ticker, salt), date_rng(period, DateTimeAt(instant)))

\* The frames generate_enhanced_mock_data returns, by its arguments, the clock
\* and the salt (@@ makes TLC tabulate the function once).
MockFrames ==
    [a \in FetchTickers \X Periods \X (0..MaxInstant) \X (1..MaxHashSeed) |->
        generate_enhanced_mock_data(a[1], a[2], a[3], a[4])] @@ <<>>

\* What yf.download can do: raise, or return a frame of `ncols` columns
\* (the index not counted) and some rows.
LiveRows ==
    << [Date |-> <<399, 0>>, Open |-> 100000, High |-> 101000, Low |-> 99000,
        Close |-> 100500, Volume |-> 1200000],
       [Date |-> <<400, 0>>, Open |-> 100500, High |-> 102000, Low |-> 100000,
        Close |-> 101500, Volume |-> 900000] >>

LiveOutcomes ==
    {[kind |-> "raise", ncols |-> 0, rows |-> <<>>],
     [kind |-> "frame", ncols |-> 5, rows |-> <<>>],
     [kind |-> "frame", ncols |-> 5, rows |-> LiveRows],
     [kind |-> "frame", ncols |-> 6, rows |-> LiveRows]}

\* Whether the live branch of fetch_stock_data (lines 16-28) returns the download:
\* it is not empty and takes the six column names (reset_index adds one column).
LiveUsable(live) == live.kind = "frame" /\ live.rows # <<>> /\ live.ncols + 1 = 6

\* A fetch_stock_data without the stock_data.empty test of line 20.
fetch_without_empty_test(ticker, period, use_mock, live, instant, salt) ==
    IF use_mock
    THEN [rows |-> MockFrames[<<ticker, period, instant, salt>>],
          live_tried |-> FALSE, mock |-> TRUE]
    ELSE IF live.kind = "frame" /\ live.ncols + 1 = 6
    THEN [rows |-> live.rows, live_tried |-> TRUE, mock |-> FALSE]
    ELSE [rows |-> MockFrames[<<ticker, period, instant, salt>>],
          live_tried |-> TRUE, mock |-> TRUE]

\* fetch_stock_data(ticker, period, use_mock=...): the frame returned, whether
\* yf.download was called, and whether the frame is generated.
fetch_stock_data(ticker, period, use_mock, live, instant, salt) ==
    IF use_mock
    THEN [rows |-> MockFrames[<<ticker, period, instant, salt>>],
          live_tried |-> FALSE, mock |-> TRUE]
    ELSE IF LiveUsable(live)
    THEN [rows |-> live.rows, live_tried |-> TRUE, mock |-> FALSE]
    ELSE [rows |-> MockFrames[<<ticker, period, instant, salt>>],
          live_tried |-> TRUE, mock |-> TRUE]

NoCall == [ticker |-> "", period |-> "", use_mock |-> FALSE, live |-> "", at |-> 0]
NoFrame == [rows |-> <<>>, live_tried |-> FALSE, mock |-> FALSE]
NoMock == [ticker |-> "", period |-> "", at |-> 0, rows |-> <<>>]

\* How the download of a call went, for the record of the call.
LiveClass(use_mock, live) ==
    IF use_mock THEN "unused"
    ELSE IF LiveUsable(live) THEN "usable"
    ELSE IF live.kind = "raise" THEN "raise"
    ELSE IF live.rows = <<>> THEN "empty"
    ELSE "columns"

\* A call of fetch_stock_data at the present instant.
Fetch ==
    /\ \E ticker \in FetchTickers, period \in Periods, use_mock \in BOOLEAN,
          live \in LiveOutcomes :
        /\ fetch_call' = [ticker |-> ticker, period |-> period, use_mock |-> use_mock,
                          live |-> LiveClass(use_mock, live), at |-> now]
        /\ fetch_result' = fetch_stock_data(ticker, period, use_mock, live, now, hashseed)
    /\ mock_prev' = IF fetch_result.mock
                    THEN [ticker |-> fetch_call.ticker, period |-> fetch_call.period,
                          at |-> fetch_call.at, rows |-> fetch_result.rows]
                    ELSE mock_prev
    /\ UNCHANGED <<hashseed, now>>
    /\ UNCHANGED <<runVars, trainVars, stratVars, indVars>>

\* Time passes.
Tick ==
    /\ now < MaxInstant
    /\ now' = now + 1
    /\ UNCHANGED <<hashseed, fetch_call, fetch_result, mock_prev>>
    /\ UNCHANGED <<runVars, trainVars, stratVars, indVars>>

FetchIdle ==
    /\ hashseed = 1
    /\ now = 0
    /\ fetch_call = NoCall
    /\ fetch_result = NoFrame
    /\ mock_prev = NoMock

(***************************************************************************)
(* Model trainer: src/models/ml_models.py                                  *)
(*                                                                         *)
(* A frame is its set of column names and its rows; a row carries its      *)
(* Close, the set of its columns that are NaN and the set of its columns   *)
(* that are infinite.  scikit-learn is the library: which rows the split   *)
(* puts in the test set and what a fitted model predicts are drawn, the    *)
(* sizes and the errors of the split and of the scaler follow              *)
(* scikit-learn's rules.                                                   *)
(***************************************************************************)

\* train_ensemble_models' empty result (None, 0, {}).
EmptyResult == <<"None", 0, NoKeys>>

\* ml_features, in the order of the source
ml_features ==
    << "RSI_14", "MACD_12_26_9", "MACDs_12_26_9", "MACDh_12_26_9",
       "STOCHk_14_3_3", "STOCHd_14_3_3", "WILLR_14",
       "BBL_20_2.0", "BBM_20_2.0", "BBU_20_2.0", "BBB_20_2.0", "BBP_20_2.0",
       "ATRr_14", "AD", "OBV",
       "Price_Change", "Volume_Change", "High_Low_Pct", "Open_Close_Pct",
       "Distance_to_Support", "Distance_to_Resistance" >>

\* if len(available_features) < 5
MinFeatures == 5

\* A guard that lets four features through.
InsufficientBelowFour(features) == Len(features) < MinFeatures - 1

\* if len(available_features) < 5 (line 36)
InsufficientFeatures(features) == Len(features) < MinFeatures

\* available_features = [f for f in ml_features if f in df.columns]
available_features(columns) == SelectSeq(ml_features, LAMBDA f : f \in columns)

\* df['Target'] = (df['Close'].shift(-1) > df['Close']).astype(int): on the
\* last row the shifted Close is NaN, the comparison False and the label 0.
Target(rows) ==
    [i \in 1..Len(rows) |->
        IF i < Len(rows) /\ rows[i + 1].Close > rows[i].Close THEN 1 ELSE 0]

\* ml_df = df[available_features + ['Target']].dropna(): the positions of the
\* rows kept, those with no NaN among the features used (Target is an int
\* column and never NaN).
ml_df(rows, features) ==
    KeptIn(LAMBDA i : rows[i].nan \cap Range(features) = {}, 1, Len(rows))

\* test_size=0.3: scikit-learn takes ceil(0.3 * n) rows for the test set.
\* StandardScaler().fit_transform(X_train), .transform(X_test) (lines 50-52):
\* sklearn raises ValueError on an infinite value, which dropna has kept; every
\* row of X is in X_train or in X_test.
ScalerRaises(rows, X, features) ==
    \E k \in 1..Len(X) : rows[X[k]].inf \cap Range(features) # {}

TestSize(n) == (3 * n + 9) \div 10

\* train_test_split(X, y, test_size=0.3, random_state=42, stratify=y) raises
\* when there is no row, when a class has a single member, or when the train
\* or the test set has fewer rows than there are classes.
SplitRaises(y) ==
    LET n == Len(y)
        classes == Range(y)
        count(c) == Cardinality({i \in 1..n : y[i] = c})
    IN  \/ n = 0
        \/ n - TestSize(n) = 0
        \/ \E c \in classes : count(c) < 2
        \/ TestSize(n) < Cardinality(classes)
        \/ n - TestSize(n) < Cardinality(classes)

\* models, in the order of the dict
models == <<"Decision Tree", "Logistic Regression">>

\* type(model).__name__ of the model trained under a name
ModelClass(name) ==
    IF name = "Decision Tree" THEN "DecisionTreeClassifier" ELSE "LogisticRegression"

\* if accuracy >= best_accuracy: the later model wins a tie.
LaterWinsTie(correct, best_correct) == correct >= best_correct

\* if accuracy > best_accuracy (accuracies share the test set, so they compare
\* as their numbers of correct predictions)
Improves(correct, best_correct) == correct > best_correct

\* ---- float arithmetic of lines 77 and 111 ----
\* accuracy = correct / total and accuracy * 100 are IEEE doubles: 53 bits,
\* round half to even.  An integer is a sequence of bits, the most
\* significant first.

\* The bits of a double's significand.
FloatBits == 53

\* bits without its leading zeros
StripZeros(bits) ==
    LET ones == {i \in 1..Len(bits) : bits[i] = 1}
    IN  IF ones = {} THEN <<>>
        ELSE SubSeq(bits, CHOOSE i \in ones : \A j \in ones : i <= j, Len(bits))

\* The sum of two integers.
AddBits(a, b) ==
    LET n == Max(Len(a), Len(b)) + 1
        \* the i-th bit from the right
        A == [i \in 1..n |-> IF i <= Len(a) THEN a[Len(a) + 1 - i] ELSE 0]
        B == [i \in 1..n |-> IF i <= Len(b) THEN b[Len(b) + 1 - i] ELSE 0]
        carry[i \in 0..n] == IF i = 0 THEN 0 ELSE (A[i] + B[i] + carry[i - 1]) \div 2
    IN  StripZeros([i \in 1..n |-> (A[n + 1 - i] + B[n + 1 - i] + carry[n - i]) % 2])

\* The integer times 2^k.
ShiftBits(bits, k) == bits \o [i \in 1..k |-> 0]

\* -1, 0, 1 as a < b, a = b, a > b (neither has leading zeros).
CompareBits(a, b) ==
    IF Len(a) # Len(b) THEN (IF Len(a) < Len(b) THEN 0 - 1 ELSE 1)
    ELSE LET d == {i \in 1..Len(a) : a[i] # b[i]}
         IN  IF d = {} THEN 0
             ELSE LET m == CHOOSE i \in d : \A j \in d : i <= j
                  IN  IF a[m] < b[m] THEN 0 - 1 ELSE 1

\* The bits of a small integer.
RECURSIVE IntBits(_)
IntBits(v) == IF v = 0 THEN <<>> ELSE Append(IntBits(v \div 2), v % 2)

\* Long division: bits, then the next n bits of r / t (r < t), and the
\* remainder left.
RECURSIVE LongDivision(_, _, _, _)
LongDivision(bits, r, t, n) ==
    IF n = 0 THEN [bits |-> bits, rem |-> r]
    ELSE LET d == IF 2 * r >= t THEN 1 ELSE 0
         IN  LongDivision(Append(bits, d), 2 * r - d * t, t, n - 1)

\* The place after the binary point of the first 1 of c / t (0 < c < t).
RECURSIVE FirstOne(_, _)
FirstOne(c, t) == IF 2 * c >= t THEN 1 ELSE 1 + FirstOne(2 * c, t)

\* An integer of more than 53 bits rounded to 53 significant bits, half to even.
RoundToFloat(bits) ==
    IF Len(bits) <= FloatBits THEN bits
    ELSE LET k == Len(bits) - FloatBits
             head == SubSeq(bits, 1, FloatBits)
             tail == SubSeq(bits, FloatBits + 1, Len(bits))
             rest == \E i \in 2..k : tail[i] = 1
             up == tail[1] = 1 /\ (rest \/ head[FloatBits] = 1)
         IN  ShiftBits(IF up THEN AddBits(head, <<1>>) ELSE head, k)

\* How the double (correct / total) * 100 compares with the fraction
\* 100 * correct / total (0 < correct < total): -1 below, 0 equal, 1 above.
FloatError(correct, total) ==
    LET s == FirstOne(correct, total) + FloatBits - 1
        \* correct / total, as the integer significand of the double times 2^-s
        q == LongDivision(<<>>, correct, total, s)
        m == StripZeros(q.bits)
        accuracy == IF 2 * q.rem > total \/ (2 * q.rem = total /\ m[FloatBits] = 1)
                    THEN AddBits(m, <<1>>) ELSE m
        \* accuracy * 100 = 64 a + 32 a + 4 a, rounded to a double
        product == AddBits(AddBits(ShiftBits(accuracy, 6), ShiftBits(accuracy, 5)),
                           ShiftBits(accuracy, 2))
        percent == RoundToFloat(product)
        \* 100 * correct / total, times 2^s: integer part and remainder
        exact == LongDivision(IntBits((100 * correct) \div total),
                              (100 * correct) % total, total, s)
        cmp == CompareBits(percent, StripZeros(exact.bits))
    IN  IF cmp # 0 THEN cmp ELSE IF exact.rem = 0 THEN 0 ELSE 0 - 1

\* round(best_accuracy * 100, 2), in hundredths of a percent: Python rounds the
\* double to the nearest hundredth, half to even.  The double differs from the
\* fraction by less than any distance to a half, except when the fraction is
\* at a half: there the double's error decides (23/160*100 is
\* 14.374999999999998 and rounds to 14.37).
RoundedPercent(correct, total) ==
    LET q == (correct * 10000) \div total
        r == (correct * 10000) % total
    IN  IF 2 * r > total THEN q + 1
        ELSE IF 2 * r < total THEN q
        ELSE LET e == FloatError(correct, total)
             IN  IF e > 0 \/ (e = 0 /\ q % 2 = 1) THEN q + 1 ELSE q

\* Lines 13-52: the guards, the label, the features, the rows kept, the split,
\* the scaling.  A split or a scaling that raises is caught at line 117.
TrainPrepare ==
    /\ train_pc = "start"
    /\ IF train_df.isNone \/ train_df.rows = <<>>
       THEN /\ train_return' = EmptyResult
            /\ train_pc' = "done"
            /\ UNCHANGED <<train_df, train_X, train_y, n_test>>
       ELSE LET target == Target(train_df.rows)
                features == available_features(train_df.columns)
                kept == ml_df(train_df.rows, features)
                y == [k \in 1..Len(kept) |-> target[kept[k]]]
            IN  /\ train_df' = [train_df EXCEPT !.columns = @ \cup {"Target"}]
                /\ IF InsufficientFeatures(features)
                   THEN /\ train_return' = EmptyResult
                        /\ train_pc' = "done"
                        /\ UNCHANGED <<train_X, train_y, n_test>>
                   ELSE /\ train_X' = kept
                        /\ train_y' = y
                        /\ IF SplitRaises(y)
                           THEN /\ train_return' = EmptyResult
                                /\ train_pc' = "done"
                                /\ UNCHANGED n_test
                           ELSE /\ n_test' = TestSize(Len(y))
                                /\ IF ScalerRaises(train_df.rows, kept, features)
                                   THEN /\ train_return' = EmptyResult
                                        /\ train_pc' = "done"
                                   ELSE /\ train_pc' = "fit"
                                        /\ UNCHANGED train_return
    /\ UNCHANGED <<fit_log, best_model, best_accuracy>>
    /\ UNCHANGED <<runVars, fetchVars, stratVars, indVars>>

\* One iteration of the loop of lines 68-97: the next model is fitted and
\* scored, or raises and is skipped.
TrainFit ==
    /\ train_pc = "fit"
    /\ Len(fit_log) < Len(models)
    /\ LET name == models[Len(fit_log) + 1]
       IN  \/ /\ fit_log' = Append(fit_log, [name |-> name, raised |-> TRUE, correct |-> 0])
              /\ UNCHANGED <<best_model, best_accuracy>>
           \/ \E correct \in 0..n_test :
                /\ fit_log' = Append(fit_log,
                                     [name |-> name, raised |-> FALSE, correct |-> correct])
                /\ IF Improves(correct, best_accuracy)
                   THEN /\ best_accuracy' = correct
                        /\ best_model' = ModelClass(name)
                   ELSE UNCHANGED <<best_model, best_accuracy>>
    /\ UNCHANGED <<train_df, train_pc, train_X, train_y, n_test, train_return>>
    /\ UNCHANGED <<runVars, fetchVars, stratVars, indVars>>

\* Lines 99-115: the empty result when no model was kept, the best otherwise.
TrainReturn ==
    /\ train_pc = "fit"
    /\ Len(fit_log) = Len(models)
    /\ train_return' =
        IF best_model = "None" THEN EmptyResult
        ELSE LET features == available_features(train_df.columns)
             IN  <<best_model, RoundedPercent(best_accuracy, n_test),
                   [model_results |->
                        {fit_log[k].name : k \in {j \in 1..Len(fit_log) : ~fit_log[j].raised}},
                    \* the ten most important features of a tree; {} otherwise
                    feature_importance |->
                        IF best_model = "DecisionTreeClassifier"
                        THEN Min(10, Len(features)) ELSE 0,
                    features_used |-> features]>>
    /\ train_pc' = "done"
    /\ UNCHANGED <<train_df, train_X, train_y, n_test, fit_log, best_model, best_accuracy>>
    /\ UNCHANGED <<runVars, fetchVars, stratVars, indVars>>

TrainIdle ==
    /\ train_df = NoFrameGiven
    /\ train_pc = "done"
    /\ train_X = <<>>
    /\ train_y = <<>>
    /\ n_test = 0
    /\ fit_log = <<>>
    /\ best_model = "None"
    /\ best_accuracy = 0
    /\ train_return = <<>>

(***************************************************************************)
(* Strategy evaluator: src/analysis/strategy.py                            *)
(*                                                                         *)
(* A row carries the columns the rules read, as integers (RSI and          *)
(* stochastic in points, the distance to support in percent).  The frame   *)
(* has no NaN: the indicator engine has dropped those rows.                *)
(***************************************************************************)

\* src/config.py: the thresholds of the rules
RSI_OVERSOLD == 30
STOCH_OVERSOLD == 20
MIN_SUPPORT_DISTANCE == 2

\* df['Volume'].rolling(20)
VolumeWindow == 20

StrategyColumns ==
    {"Date", "Close", "Volume", "RSI_14", "SMA_20", "SMA_50", "MACD_12_26_9",
     "MACDs_12_26_9", "STOCHk_14_3_3", "Distance_to_Support"}

\* The sum of the Volume of the rows lo..hi.
RECURSIVE VolumeSum(_, _, _)
VolumeSum(rows, lo, hi) ==
    IF lo > hi THEN 0 ELSE rows[hi].Volume + VolumeSum(rows, lo, hi - 1)

\* rsi_oversold = df['RSI_14'] < RSI_OVERSOLD
rsi_oversold(rows, i) == rows[i].RSI_14 < RSI_OVERSOLD

\* A crossover read as a sustained state: above on this row.
sma_above(rows, i) == rows[i].SMA_20 > rows[i].SMA_50

\* sma_crossover: above on this row, not above on the row before (the shifted
\* value of the first row is NaN, and the comparison False)
sma_crossover(rows, i) ==
    /\ rows[i].SMA_20 > rows[i].SMA_50
    /\ i > 1
    /\ rows[i - 1].SMA_20 <= rows[i - 1].SMA_50

\* volume_confirm = df['Volume'] > df['Volume'].rolling(20).mean(): the mean is
\* NaN, and the comparison False, on the first 19 rows
volume_confirm(rows, i) ==
    /\ i >= VolumeWindow
    /\ VolumeWindow * rows[i].Volume > VolumeSum(rows, i - VolumeWindow + 1, i)

\* macd_bullish = df['MACD_12_26_9'] > df['MACDs_12_26_9']
macd_bullish(rows, i) == rows[i].MACD > rows[i].MACDs

\* stoch_oversold = df['STOCHk_14_3_3'] < STOCH_OVERSOLD
stoch_oversold(rows, i) == rows[i].STOCHk < STOCH_OVERSOLD

\* price_above_support = df['Distance_to_Support'] > MIN_SUPPORT_DISTANCE
price_above_support(rows, i) == rows[i].Distance_to_Support > MIN_SUPPORT_DISTANCE

\* strong_buy = rsi_oversold & sma_crossover & volume_confirm & macd_bullish
strong_buy(rows, i) ==
    /\ rsi_oversold(rows, i)
    /\ sma_crossover(rows, i)
    /\ volume_confirm(rows, i)
    /\ macd_bullish(rows, i)

\* confirmed_buy = stoch_oversold & price_above_support, without strong_buy
confirmed_without_strong(rows, i) ==
    stoch_oversold(rows, i) /\ price_above_support(rows, i)

\* confirmed_buy = strong_buy & stoch_oversold & price_above_support
confirmed_buy(rows, i) ==
    strong_buy(rows, i) /\ stoch_oversold(rows, i) /\ price_above_support(rows, i)

\* df['Signal'] = 0; df.loc[strong_buy, 'Signal'] = 1; df.loc[confirmed_buy, 'Signal'] = 2
SignalColumn(rows) ==
    [i \in 1..Len(rows) |->
        LET s0 == 0
            s1 == IF strong_buy(rows, i) THEN 1 ELSE s0
        IN  IF confirmed_buy(rows, i) THEN 2 ELSE s1]

\* buy_signals['Signal'].map({1: 'BUY', 2: 'STRONG_BUY'})
SignalType(signal) == IF signal = 1 THEN "BUY" ELSE IF signal = 2 THEN "STRONG_BUY" ELSE "NaN"

\* buy_signals = df[df['Signal'] > 0].copy(), with Signal_Type: the rows kept,
\* by position, in the order of the frame
BuySignals(signal) ==
    LET kept == KeptIn(LAMBDA i : signal[i] > 0, 1, Len(signal))
    IN  [k \in 1..Len(kept) |->
            [row |-> kept[k], Signal |-> signal[kept[k]],
             Signal_Type |-> SignalType(signal[kept[k]])]]

\* apply_enhanced_trading_strategy(df): the frame is None, empty or without RSI
\* (an empty frame is returned), a column the rules read is missing (KeyError,
\* caught: an empty frame is returned and no Signal column was written), or the
\* Signal column is written and the buy signals returned.
ApplyStrategy ==
    /\ strat_pc = "start"
    /\ strat_pc' = "done"
    /\ IF strat_df.isNone \/ strat_df.rows = <<>> \/ "RSI_14" \notin strat_df.columns
       THEN /\ buy_signals' = <<>>
            /\ UNCHANGED <<strat_df, strat_signal>>
       ELSE IF ~({"SMA_20", "SMA_50", "Volume", "MACD_12_26_9", "MACDs_12_26_9",
                  "STOCHk_14_3_3", "Distance_to_Support"} \subseteq strat_df.columns)
       THEN /\ buy_signals' = <<>>
            /\ UNCHANGED <<strat_df, strat_signal>>
       ELSE LET signal == SignalColumn(strat_df.rows)
            IN  /\ strat_signal' = signal
                /\ strat_df' = [strat_df EXCEPT !.columns = @ \cup {"Signal"}]
                /\ buy_signals' = BuySignals(signal)
    /\ UNCHANGED <<runVars, fetchVars, trainVars, indVars>>

StratIdle ==
    /\ strat_df = NoFrameGiven
    /\ strat_pc = "done"
    /\ strat_signal = <<>>
    /\ buy_signals = <<>>

(***************************************************************************)
(* Indicator engine: src/analysis/technical_analysis.py                    *)
(*                                                                         *)
(* A number is a pair <<numerator, denominator>>: <<0, 0>> is NaN and      *)
(* <<1, 0>>, <<-1, 0>> are the infinities.  A row carries its Date, its    *)
(* prices and volume (integers) and ind, the indicator columns it has.     *)
(*                                                                         *)
(* The moving averages, OBV, the custom features and the pandas_ta columns *)
(* over a window of rows (Bollinger bands, stochastic, Williams %R) are    *)
(* computed by value, the standard deviation to 1/200 and the stochastic   *)
(* to 1/100.  The other pandas_ta columns are smoothed recursively or      *)
(* summed from the first row (RSI, EMA, MACD, ATR, AD): their values are   *)
(* not computed here.  What is modelled of them is which rows are NaN (the *)
(* warm-up rows) and over which frame they were computed: a value that is  *)
(* not NaN stands as the date of the first row of that frame.  No property *)
(* compares these columns.  RSI is NaN after its warm-up too as long as    *)
(* the close has not changed since the first row (the average gain and the *)
(* average loss are both zero).                                            *)
(*                                                                         *)
(* pandas_ta appends nothing for an indicator whose length exceeds the     *)
(* frame (a column the frame already has then stays as it is), and two of  *)
(* its indicators raise on a frame that is long enough for their first     *)
(* average and too short for their second.                                 *)
(***************************************************************************)

NaN == <<0, 0>>
Num(v) == <<v, 1>>
\* a / b times the epsilon of a float (2^-52), which pandas_ta adds to a range
\* that is zero
Epsilons(a, b) == <<a, b, 1>>
Frac(a, b) ==
    IF b = 0 THEN (IF a = 0 THEN NaN ELSE IF a > 0 THEN <<1, 0>> ELSE <<0 - 1, 0>>)
    ELSE <<a, b>>

\* src/config.py: the periods of the indicators, as the column names read by
\* strategy.py and ml_models.py fix them (RSI_14, SMA_20, SMA_50, MACD_12_26_9,
\* BBL_20_2.0)
RSI_PERIOD == 14
SMA_SHORT_PERIOD == 20
SMA_LONG_PERIOD == 50
MACD_FAST == 12
MACD_SLOW == 26
\* df.ta.macd(): signal = 9 (MACDs_12_26_9)
MACD_SIGNAL == 9
BBANDS_PERIOD == 20

\* df['Low'].rolling(window=20), df['High'].rolling(window=20)
SupportWindow == 20

BaseColumns == {"Date", "Open", "High", "Low", "Close", "Volume"}

\* df.ta.stoch(): k = 14, d = 3, smooth_k = 3 (STOCHk_14_3_3, STOCHd_14_3_3)
StochLength == 14
StochSmooth == 3
\* df.ta.willr(): length = 14 (WILLR_14)
WillrLength == 14

\* The pandas_ta columns other than SMA and OBV: the rows the indicator needs
\* and the NaN rows it starts with (macd 12/26/9, stoch 14/3/3 and willr 14
\* are the library's defaults).
LibColumns ==
    {[col |-> "RSI_14", need |-> RSI_PERIOD, nans |-> RSI_PERIOD],
     [col |-> "EMA_12", need |-> MACD_FAST, nans |-> MACD_FAST - 1],
     [col |-> "EMA_26", need |-> MACD_SLOW, nans |-> MACD_SLOW - 1],
     [col |-> "MACD_12_26_9", need |-> MACD_SLOW, nans |-> MACD_SLOW - 1],
     [col |-> "MACDh_12_26_9", need |-> MACD_SLOW, nans |-> MACD_SLOW + MACD_SIGNAL - 2],
     [col |-> "MACDs_12_26_9", need |-> MACD_SLOW, nans |-> MACD_SLOW + MACD_SIGNAL - 2],
     [col |-> "BBL_20_2.0", need |-> BBANDS_PERIOD, nans |-> BBANDS_PERIOD - 1],
     [col |-> "BBM_20_2.0", need |-> BBANDS_PERIOD, nans |-> BBANDS_PERIOD - 1],
     [col |-> "BBU_20_2.0", need |-> BBANDS_PERIOD, nans |-> BBANDS_PERIOD - 1],
     [col |-> "BBB_20_2.0", need |-> BBANDS_PERIOD, nans |-> BBANDS_PERIOD - 1],
     [col |-> "BBP_20_2.0", need |-> BBANDS_PERIOD, nans |-> BBANDS_PERIOD - 1],
     [col |-> "STOCHk_14_3_3", need |-> StochLength, nans |-> StochLength + StochSmooth - 2],
     [col |-> "STOCHd_14_3_3", need |-> StochLength,
      nans |-> StochLength + 2 * StochSmooth - 3],
     [col |-> "WILLR_14", need |-> WillrLength, nans |-> WillrLength - 1],
     [col |-> "ATRr_14", need |-> RSI_PERIOD, nans |-> RSI_PERIOD],
     [col |-> "AD", need |-> 1, nans |-> 0]}

\* The pandas_ta columns of LibColumns that are functions of a window of rows.
WindowLibColumns ==
    {"BBL_20_2.0", "BBM_20_2.0", "BBU_20_2.0", "BBB_20_2.0", "BBP_20_2.0",
     "STOCHk_14_3_3", "STOCHd_14_3_3", "WILLR_14"}

\* The columns computed by value: the two moving averages and OBV of pandas_ta
\* (with the rows they need), and the custom features of lines 36-43.
SmaShort == "SMA_20"
SmaLong == "SMA_50"
CustomColumns ==
    {"Price_Change", "Volume_Change", "High_Low_Pct", "Open_Close_Pct", "Support",
     "Resistance", "Distance_to_Support", "Distance_to_Resistance"}

\* The indicator columns a call computes on a frame of n rows.
ComputedColumns(n) ==
    {c.col : c \in {x \in LibColumns : x.need <= n}}
      \cup (IF n >= SMA_SHORT_PERIOD THEN {SmaShort} ELSE {})
      \cup (IF n >= SMA_LONG_PERIOD THEN {SmaLong} ELSE {})
      \cup (IF n >= 1 THEN {"OBV"} ELSE {})
      \cup CustomColumns

\* The smallest / largest of field f over the rows lo..hi.
RECURSIVE LowestLow(_, _, _)
LowestLow(rows, lo, hi) ==
    IF lo = hi THEN rows[hi].Low ELSE Min(rows[hi].Low, LowestLow(rows, lo, hi - 1))

RECURSIVE HighestHigh(_, _, _)
HighestHigh(rows, lo, hi) ==
    IF lo = hi THEN rows[hi].High ELSE Max(rows[hi].High, HighestHigh(rows, lo, hi - 1))

\* An average over all the rows so far instead of the last `length` rows.
ExpandingMean(closeSums, length, i) ==
    IF i < length THEN NaN ELSE <<closeSums[i], i>>

\* ta.sma(length): close.rolling(length).mean(), from the running sums of Close
Sma(closeSums, length, i) ==
    IF i < length THEN NaN
    ELSE <<closeSums[i] - (IF i > length THEN closeSums[i - length] ELSE 0), length>>

\* The integer square root.
RECURSIVE IsqrtIn(_, _, _)
IsqrtIn(v, lo, hi) ==
    IF lo = hi THEN lo
    ELSE LET mid == (lo + hi + 1) \div 2
         IN  IF mid * mid <= v THEN IsqrtIn(v, mid, hi) ELSE IsqrtIn(v, lo, mid - 1)

Isqrt(v) == IsqrtIn(v, 0, Min(v, 46340))

\* ta.bbands(length, std=2): mid = sma, lower / upper = mid -/+ 2 stdev (ddof 0),
\* bandwidth = 100 (upper - lower) / mid, percent = (close - lower) / (upper -
\* lower), both differences made non-zero: where the closes of the window are
\* all equal, upper - lower and close - lower are 0 and become epsilon, so the
\* bandwidth is 100 epsilon / mid and the percent epsilon / epsilon = 1.  sum
\* and sqsum are the sums of Close and of its square over the window.
BBands(col, close, sum, sqsum, length) ==
    LET \* length^2 * variance, and 10 * length * stdev
        v == length * sqsum - sum * sum
        r == Isqrt(100 * v)
        d == 10 * length
    IN  CASE col = "BBM_20_2.0" -> <<sum, length>>
          [] col = "BBL_20_2.0" -> <<10 * sum - 2 * r, d>>
          [] col = "BBU_20_2.0" -> <<10 * sum + 2 * r, d>>
          [] col = "BBB_20_2.0" ->
                IF v = 0 THEN Epsilons(100 * length, sum) ELSE Frac(100 * 4 * r, 10 * sum)
          [] col = "BBP_20_2.0" ->
                IF v = 0 THEN Num(1) ELSE Frac(d * close - 10 * sum + 2 * r, 4 * r)

\* ta.stoch: 100 (close - lowest low) / (highest high - lowest low) over the
\* last 14 rows, the range made non-zero; in hundredths.
FastK(rows, i) ==
    LET ll == LowestLow(rows, i - StochLength + 1, i)
        hh == HighestHigh(rows, i - StochLength + 1, i)
    IN  IF hh = ll THEN 0 ELSE (10000 * (rows[i].Close - ll)) \div (hh - ll)

\* ta.willr: 100 ((close - lowest low) / (highest high - lowest low) - 1) over
\* the last 14 rows
Willr(rows, i) ==
    LET ll == LowestLow(rows, i - WillrLength + 1, i)
        hh == HighestHigh(rows, i - WillrLength + 1, i)
    IN  Frac(0 - 100 * (hh - rows[i].Close), hh - ll)

\* ta.obv: the running sum of the volume, signed by the move of Close (the
\* first row counts as a rise)
SignedVolume(rows, i) ==
    IF i = 1 \/ rows[i].Close > rows[i - 1].Close THEN rows[i].Volume
    ELSE IF rows[i].Close < rows[i - 1].Close THEN 0 - rows[i].Volume
    ELSE 0

\* series.pct_change(): NaN on the first row, x / previous - 1 after it
PctChange(prev, x) == Frac(x - prev, prev)

\* The frame of lines 20-43: every column computed, before the NaN rows are dropped.
Enriched(df) ==
    LET rows == df.rows
        n == Len(rows)
        computed == ComputedColumns(n)
        kept == (df.columns \ BaseColumns) \ computed
        closeSums == CumSum([i \in 1..n |-> rows[i].Close], 1, n)
        obv == CumSum([i \in 1..n |-> SignedVolume(rows, i)], 1, n)
        closeSqSums == CumSum([i \in 1..n |-> rows[i].Close * rows[i].Close], 1, n)
        window(sums, length, i) == sums[i] - (IF i > length THEN sums[i - length] ELSE 0)
        fastK == [i \in 1..n |-> IF i < StochLength THEN 0 ELSE FastK(rows, i)]
        \* %K: the mean of StochSmooth fast values; %D: the mean of as many %K
        stochK(i) == fastK[i - 2] + fastK[i - 1] + fastK[i]
        basis == Num(rows[1].Date)
        \* the rows up to i on which the close differs from the row before
        changes == CumSum([i \in 1..n |->
                              IF i > 1 /\ rows[i].Close # rows[i - 1].Close THEN 1 ELSE 0],
                          1, n)
        lib(c, i) ==
            LET x == CHOOSE x \in LibColumns : x.col = c
            IN  IF i <= x.nans THEN NaN
                \* rsi = 100 * gains / (gains + losses), the averages of the
                \* rises and of the falls so far: 0 / 0 while the close has
                \* not changed
                ELSE IF c = "RSI_14" /\ changes[i] = 0 THEN NaN
                ELSE CASE c = "STOCHk_14_3_3" -> <<stochK(i), 100 * StochSmooth>>
                       [] c = "STOCHd_14_3_3" ->
                             <<stochK(i - 2) + stochK(i - 1) + stochK(i),
                               100 * StochSmooth * StochSmooth>>
                       [] c = "WILLR_14" -> Willr(rows, i)
                       [] c \in WindowLibColumns ->
                             BBands(c, rows[i].Close, window(closeSums, BBANDS_PERIOD, i),
                                    window(closeSqSums, BBANDS_PERIOD, i), BBANDS_PERIOD)
                       [] OTHER -> basis
        support(i) == IF i < SupportWindow THEN NaN
                      ELSE Num(LowestLow(rows, i - SupportWindow + 1, i))
        resistance(i) == IF i < SupportWindow THEN NaN
                         ELSE Num(HighestHigh(rows, i - SupportWindow + 1, i))
        value(c, i) ==
            CASE c = SmaShort -> Sma(closeSums, SMA_SHORT_PERIOD, i)
              [] c = SmaLong -> Sma(closeSums, SMA_LONG_PERIOD, i)
              [] c = "OBV" -> Num(obv[i])
              [] c = "Price_Change" ->
                    IF i = 1 THEN NaN ELSE PctChange(rows[i - 1].Close, rows[i].Close)
              [] c = "Volume_Change" ->
                    IF i = 1 THEN NaN ELSE PctChange(rows[i - 1].Volume, rows[i].Volume)
              [] c = "High_Low_Pct" -> Frac(rows[i].High - rows[i].Low, rows[i].Close)
              [] c = "Open_Close_Pct" -> Frac(rows[i].Close - rows[i].Open, rows[i].Open)
              [] c = "Support" -> support(i)
              [] c = "Resistance" -> resistance(i)
              [] c = "Distance_to_Support" ->
                    IF i < SupportWindow THEN NaN
                    ELSE Frac(rows[i].Close - support(i)[1], rows[i].Close)
              [] c = "Distance_to_Resistance" ->
                    IF i < SupportWindow THEN NaN
                    ELSE Frac(resistance(i)[1] - rows[i].Close, rows[i].Close)
              [] OTHER -> lib(c, i)
    IN  [isNone |-> FALSE,
         columns |-> df.columns \cup computed,
         rows |-> [i \in 1..n |->
                    [rows[i] EXCEPT !.ind =
                        [c \in computed \cup kept |->
                            IF c \in computed THEN value(c, i) ELSE rows[i].ind[c]]]]]

\* Whether a row has a NaN in some column.
HasNaN(row) == \E c \in DOMAIN row.ind : row.ind[c] = NaN

\* A trim of the leading rows only: everything from the first row without NaN.
DropLeadingNaN(df) ==
    LET first == IF \E i \in 1..Len(df.rows) : ~HasNaN(df.rows[i])
                 THEN CHOOSE i \in 1..Len(df.rows) :
                        /\ ~HasNaN(df.rows[i])
                        /\ \A j \in 1..(i - 1) : HasNaN(df.rows[j])
                 ELSE Len(df.rows) + 1
    IN  [df EXCEPT !.rows = [k \in 1..(Len(df.rows) - first + 1) |-> df.rows[first + k - 1]]]

\* df.dropna(inplace=True): the rows without NaN, in their order
DropNa(df) ==
    LET kept == KeptIn(LAMBDA i : ~HasNaN(df.rows[i]), 1, Len(df.rows))
    IN  [df EXCEPT !.rows = [k \in 1..Len(kept) |-> df.rows[kept[k]]]]

\* Whether a pandas_ta call of lines 20-33 raises on a frame of n rows.
\* df.ta.macd (line 25): the MACD line has n - 25 values; with 1 to 8 of them
\* the signal average (length 9) is None, and macd - None raises TypeError.
\* df.ta.stoch (line 29): the fast %K has n - 13 values; with 1 to 4 of them
\* the average %K or the average %D (length 3 each) is None, and the use of
\* it raises AttributeError.  On a shorter frame the indicator returns None
\* itself and nothing is appended.
LibRaises(n) ==
    \/ n \in MACD_SLOW..(MACD_SLOW + MACD_SIGNAL - 2)
    \/ n \in StochLength..(StochLength + 2 * StochSmooth - 3)

\* calculate_advanced_indicators(df): None for None or an empty frame and when
\* a computation raises (lines 49-51), the enriched and trimmed frame otherwise.
calculate_advanced_indicators(df) ==
    IF df.isNone \/ df.rows = <<>> THEN NoFrameGiven
    ELSE IF LibRaises(Len(df.rows)) THEN NoFrameGiven
    ELSE DropNa(Enriched(df))

\* Bound: the calls made in a row, each on the frame the one before returned.
MaxEnrichCalls == 2

\* A call of calculate_advanced_indicators on what the call before returned.
Enrich ==
    /\ ind_calls < MaxEnrichCalls
    /\ ind_raised' = (~ind_ret.isNone /\ ind_ret.rows # <<>> /\ LibRaises(Len(ind_ret.rows)))
    /\ ind_ret' = calculate_advanced_indicators(ind_ret)
    /\ ind_arg' = ind_ret
    /\ ind_calls' = ind_calls + 1
    /\ UNCHANGED <<runVars, fetchVars, trainVars, stratVars>>

IndIdle ==
    /\ ind_arg = NoFrameGiven
    /\ ind_ret = NoFrameGiven
    /\ ind_calls = 0
    /\ ind_raised = FALSE

(***************************************************************************)
(* Orchestrator: app.py                                                    *)
(***************************************************************************)

\* The tickers offered by the sidebar (a sample of NIFTY_50_TICKERS).
Tickers == {"RELIANCE.NS", "TCS.NS"}

\* Bound: the longest list of tickers a run is given.
MaxTickers == 2

\* The values of the "Initial Capital" number input tried (min 10000, step 10000).
Capitals == {100000, 110000}

Has(key) == key \in DOMAIN session_state

\* The lists the multiselect / the presets can produce: distinct tickers.
TickerLists ==
    {s \in UNION {[1..n -> Tickers] : n \in 0..MaxTickers} :
        \A a, b \in DOMAIN s : a # b => s[a] # s[b]}

\* The details of a training that selected a model, as the run sees them.
Details ==
    [model_results |-> "results", feature_importance |-> "importance",
     features_used |-> "features"]

\* What the stages can hand to process_stock.  fetch_stock_data never returns
\* None or an empty frame (it falls back to mock data), so the run draws "df" only.
FetchOutcomes == {"df"}
IndicatorOutcomes == {"df", "empty_df", "None"}
TrainOutcomes ==
    {EmptyResult, <<"DecisionTreeClassifier", 6667, Details>>,
     <<"LogisticRegression", 5000, Details>>}
ChartOutcomes == {"chart", "raise"}

\* The keys initialize_session_state assigns, in the order of lines 22-26.
InitKeys ==
    <<"results_generated", "all_trade_logs", "all_summaries", "ml_results",
      "portfolio_summary">>

\* The value each is given.
InitValue(k, initial_capital) ==
    CASE k = "results_generated" -> FALSE
      [] k = "all_trade_logs" -> <<>>
      [] k = "all_summaries" -> <<>>
      [] k = "ml_results" -> NoKeys
      [] k = "portfolio_summary" ->
            [total_capital |-> initial_capital, total_return |-> 0,
             total_return_pct |-> 0, total_trades |-> 0,
             overall_win_rate |-> 0]

\* st.session_state[k] = v
Assign(ss, k, v) == [x \in DOMAIN ss \cup {k} |-> IF x = k THEN v ELSE ss[x]]

\* The session state once the first n assignments of lines 22-26 have run.
AssignedThrough(ss, initial_capital, n) ==
    LET assigned == {InitKeys[i] : i \in 1..n}
    IN  [k \in DOMAIN ss \cup assigned |->
            IF k \in assigned THEN InitValue(k, initial_capital) ELSE ss[k]]

\* initialize_session_state
initialize_session_state(ss, initial_capital) ==
    IF "results_generated" \notin DOMAIN ss
    THEN AssignedThrough(ss, initial_capital, Len(InitKeys))
    ELSE ss

\* process_stock: the tuple it returns, given what each stage returns
\* ("raise" where the stage raises).  The early returns have three elements,
\* the normal return and the except clause four.
process_stock(stock_data, data_with_indicators, ml_results, chart) ==
    IF stock_data = "raise" THEN <<"None", "None", <<>>, "None">>
    ELSE IF stock_data \in {"None", "empty_df"} THEN <<"None", "None", <<>>>>
    ELSE IF data_with_indicators = "None" THEN <<"None", "None", <<>>>>
    ELSE IF data_with_indicators = "empty_df"
         \* strategy: empty frame; training: "No data provided"; chart: None
         THEN <<"empty_df", "empty_df", EmptyResult, "None">>
    ELSE IF chart = "raise" THEN <<"None", "None", <<>>, "None">>
    ELSE <<data_with_indicators, "signals", ml_results, chart>>

\* type(model).__name__
TypeName(model) == IF model = "None" THEN "NoneType" ELSE model

\* st.session_state.ml_results[ticker] = {...}
StoreMl(ss, ticker, ml) ==
    [ss EXCEPT !["ml_results"] =
        [t \in DOMAIN @ \cup {ticker} |->
            IF t = ticker
            THEN [accuracy |-> ml[2], model_type |-> TypeName(ml[1]), details |-> ml[3]]
            ELSE @[t]]]

\* No script run is in progress: the last one returned, or was ended by an
\* exception or by Streamlit.
ScriptOver == pc \in {"idle", "aborted", "stopped"}

\* main(): the "Run Trading Algorithm" button with an empty selection shows an
\* error and nothing changes; otherwise run_trading_algorithm starts (lines
\* 68-78) and the user touches nothing until the loop.
ClickRun ==
    /\ ScriptOver
    /\ \E tickers \in TickerLists, initial_capital \in Capitals :
        IF tickers = <<>>
        THEN UNCHANGED <<session_state, selected_tickers, idx, successful_stocks,
                         progress, run_log, pc>>
        ELSE /\ session_state' = initialize_session_state(session_state, initial_capital)
             /\ selected_tickers' = tickers
             /\ idx' = 0
             /\ successful_stocks' = 0
             /\ progress' = <<0, 1>>
             /\ run_log' = <<>>
             /\ pc' = "loop"
    /\ UNCHANGED <<fetchVars, trainVars, stratVars, indVars>>

\* Line 95 reads st.session_state.ml_results: AttributeError when the key is
\* not there (an initialisation that was ended before line 25, then a run that
\* found results_generated and initialised nothing).
StoreRaises(ss, results) == results[3] # <<>> /\ "ml_results" \notin DOMAIN ss

\* One iteration of the loop of run_trading_algorithm (lines 81-105) during
\* which the user touches nothing.  Unpacking a three-element tuple into four
\* names raises ValueError, and line 95 may raise AttributeError; nothing
\* catches them: the script run ends there.
ProcessTicker ==
    /\ pc = "loop"
    /\ idx < Len(selected_tickers)
    /\ \E f \in FetchOutcomes, d \in IndicatorOutcomes, m \in TrainOutcomes,
          c \in ChartOutcomes :
        LET ticker == selected_tickers[idx + 1]
            results == process_stock(f, d, m, c)
        IN  /\ progress' = <<idx + 1, Len(selected_tickers)>>
            /\ run_log' = Append(run_log, results)
            /\ IF Len(results) # 4 \/ StoreRaises(session_state, results)
               THEN /\ pc' = "aborted"
                    /\ UNCHANGED <<session_state, idx, successful_stocks>>
               ELSE /\ session_state' =
                         IF results[3] # <<>>
                         THEN StoreMl(session_state, ticker, results[3])
                         ELSE session_state
                    /\ successful_stocks' = successful_stocks + 1
                    /\ idx' = idx + 1
                    /\ pc' = "loop"
    /\ UNCHANGED selected_tickers
    /\ UNCHANGED <<fetchVars, trainVars, stratVars, indVars>>

\* The completion step of run_trading_algorithm (lines 107-111).
Complete ==
    /\ pc = "loop"
    /\ idx = Len(selected_tickers)
    /\ session_state' = Assign(session_state, "results_generated", TRUE)
    /\ progress' = <<1, 1>>
    /\ pc' = "idle"
    /\ UNCHANGED <<selected_tickers, idx, successful_stocks, run_log>>
    /\ UNCHANGED <<fetchVars, trainVars, stratVars, indVars>>

\* The lines at which Streamlit can end a script run that has begun a run of
\* the algorithm or a clearing: the accesses to st.session_state (21-26, 95,
\* 108, 187, 188) and the calls that send an element to the browser, st.progress
\* (75), st.empty (76), progress_bar.progress (84, 109), status_text.text
\* (85, 110), st.plotly_chart (103).
StopLines == {21, 22, 23, 24, 25, 26, 75, 76, 84, 85, 95, 103, 108, 109, 110, 187, 188}

\* The user touches a widget while the script runs (a download of line 88
\* takes seconds): Streamlit ends the script run at the next of these lines,
\* by raising a control exception there, which is no Exception and passes
\* every except clause.  What the run did before that line stays done; the
\* script then runs again from the top of main().
StoppedAt(line) ==
    CASE line \in {21, 22, 23, 24, 25, 26, 75, 76} ->
            \* a run was clicked; of lines 22-26 those before the line have run
            \* (all of them before line 75) when results_generated was not there
            /\ ScriptOver
            /\ line \in 22..26 => ~Has("results_generated")
            /\ \E tickers \in TickerLists \ {<<>>}, initial_capital \in Capitals :
                /\ session_state' =
                     IF line = 21 THEN session_state
                     ELSE IF line \in 22..26
                          THEN AssignedThrough(session_state, initial_capital, line - 22)
                          ELSE initialize_session_state(session_state, initial_capital)
                /\ selected_tickers' = tickers
            /\ idx' = 0
            /\ successful_stocks' = 0
            /\ progress' = IF line = 76 THEN <<0, 1>> ELSE progress
            /\ run_log' = <<>>
      [] line \in {84, 85} ->
            \* before process_stock is called for the ticker
            /\ pc = "loop"
            /\ idx < Len(selected_tickers)
            /\ progress' = IF line = 85 THEN <<idx + 1, Len(selected_tickers)>> ELSE progress
            /\ UNCHANGED <<session_state, selected_tickers, idx, successful_stocks, run_log>>
      [] line \in {95, 103} ->
            \* process_stock returned four values: at line 95 the training
            \* result is not stored yet; before line 103 (a chart was made) it
            \* is; line 105 has not run
            /\ pc = "loop"
            /\ idx < Len(selected_tickers)
            /\ \E f \in FetchOutcomes, d \in IndicatorOutcomes, m \in TrainOutcomes,
                  c \in ChartOutcomes :
                LET ticker == selected_tickers[idx + 1]
                    results == process_stock(f, d, m, c)
                IN  /\ Len(results) = 4
                    /\ results[3] # <<>>
                    /\ line = 103 =>
                          results[4] # "None" /\ ~StoreRaises(session_state, results)
                    /\ run_log' = Append(run_log, results)
                    /\ session_state' =
                         IF line = 103
                         THEN StoreMl(session_state, ticker, results[3])
                         ELSE session_state
            /\ progress' = <<idx + 1, Len(selected_tickers)>>
            /\ UNCHANGED <<selected_tickers, idx, successful_stocks>>
      [] line \in {108, 109, 110} ->
            \* the loop is over; line 108 has run before lines 109 and 110
            /\ pc = "loop"
            /\ idx = Len(selected_tickers)
            /\ session_state' =
                 IF line = 108 THEN session_state
                 ELSE Assign(session_state, "results_generated", TRUE)
            /\ progress' = IF line = 110 THEN <<1, 1>> ELSE progress
            /\ UNCHANGED <<selected_tickers, idx, successful_stocks, run_log>>
      [] line \in {187, 188} ->
            \* Clear Results was clicked; at line 188 some keys are deleted
            \* already and some are left (the keys come in the order of a set)
            /\ ScriptOver
            /\ \E left \in SUBSET DOMAIN session_state :
                /\ line = 187 => left = DOMAIN session_state
                /\ line = 188 => left # {}
                /\ session_state' = [k \in left |-> session_state[k]]
            /\ UNCHANGED <<selected_tickers, idx, successful_stocks, progress, run_log>>

ScriptStopped ==
    /\ \E line \in StopLines : StoppedAt(line)
    /\ pc' = "stopped"
    /\ UNCHANGED <<fetchVars, trainVars, stratVars, indVars>>

\* main(): the "Clear Results" button deletes every key and reruns the script
\* (the user touches nothing meanwhile).
ClickClear ==
    /\ ScriptOver
    /\ session_state' = NoKeys
    /\ pc' = "idle"
    /\ UNCHANGED <<selected_tickers, idx, successful_stocks, progress, run_log>>
    /\ UNCHANGED <<fetchVars, trainVars, stratVars, indVars>>

RunIdle ==
    /\ session_state = NoKeys
    /\ pc = "idle"
    /\ selected_tickers = <<>>
    /\ idx = 0
    /\ successful_stocks = 0
    /\ progress = <<0, 1>>
    /\ run_log = <<>>

InitRun ==
    /\ RunIdle
    /\ FetchIdle
    /\ TrainIdle
    /\ StratIdle
    /\ IndIdle

NextRun == ClickRun \/ ProcessTicker \/ Complete \/ ClickClear \/ ScriptStopped

SpecRun == InitRun /\ [][NextRun]_vars

\* A run has gone through its completion step and nothing has happened since.
RunCompleted ==
    /\ pc = "idle"
    /\ selected_tickers # <<>>
    /\ Len(run_log) = Len(selected_tickers)
    /\ idx = Len(selected_tickers)
    /\ Has("results_generated")
    /\ session_state["results_generated"]
    /\ progress = <<1, 1>>

\* What process_stock returned for a ticker whose processing failed: a tuple
\* without data, or one whose training result is the empty result.
FailedStock(results) ==
    \/ Len(results) # 4
    \/ results[1] \in {"None", "empty_df"}
    \/ results[3] = <<>>
    \/ results[3] = EmptyResult

\* The script runs on by itself once started: its loop and its completion step
\* are not left waiting (the clicks and the touches are the user's, and may
\* never come).
SpecRunLive == SpecRun /\ WF_vars(ProcessTicker) /\ WF_vars(Complete)

\* C1: whatever the stages of each ticker return (no indicators, an exception in
\* process_stock, an empty training result), a run that has started processes
\* every ticker of its list and reaches its completion step, where
\* results_generated is set and progress is 1.0, unless the user ends it.
C1_RunCompletes == (pc = "loop") ~> (RunCompleted \/ pc = "stopped")

\* The tickers that have an entry in session_state.ml_results.
MlEntries == IF Has("ml_results") THEN DOMAIN session_state["ml_results"] ELSE {}

\* C4: after a run, a ticker whose processing failed (no data, no indicators, an
\* exception, the empty training result) has no entry in session_state.ml_results.
C4_FailedTickerHasNoEntry ==
    RunCompleted =>
        \A k \in 1..Len(run_log) :
            FailedStock(run_log[k]) =>
                selected_tickers[k] \notin MlEntries

\* C5: every run starts from a fresh summary: after a run completes, ml_results
\* holds entries only for the tickers of that run's list (and Clear Results
\* leaves no key).
C5_ResultsOnlyOfThisRun ==
    /\ RunCompleted => MlEntries \subseteq Range(selected_tickers)
    /\ (pc = "idle" /\ ~Has("results_generated")) => DOMAIN session_state = {}

(***************************************************************************)
(* The data source on its own: a process (one hash salt) that calls        *)
(* fetch_stock_data at various times.                                      *)
(***************************************************************************)
InitFetch ==
    /\ RunIdle
    /\ hashseed \in 1..MaxHashSeed
    /\ now = 0
    /\ fetch_call = NoCall
    /\ fetch_result = NoFrame
    /\ mock_prev = NoMock
    /\ TrainIdle
    /\ StratIdle
    /\ IndIdle

NextFetch == Fetch \/ Tick

SpecFetch == InitFetch /\ [][NextFetch]_vars

(***************************************************************************)
(* The model trainer on its own: train_ensemble_models on a frame.         *)
(***************************************************************************)

\* Bound: the frames given have up to MaxTrainRows rows.
MaxTrainRows == 6

\* The Close prices of the frames given.
TrainCloses == {10, 11}

\* The columns of a frame the indicator engine has enriched.
FullColumns ==
    {"Date", "Open", "High", "Low", "Close", "Volume", "SMA_20", "SMA_50",
     "EMA_12", "EMA_26", "Support", "Resistance"} \cup Range(ml_features)

\* The columns of the frames given: all of them, or the prices and the first
\* four candidate features, or five candidates from across the list.
TrainColumnSets ==
    {FullColumns,
     {"Date", "Close", "SMA_50"} \cup {ml_features[k] : k \in 1..4},
     {"Date", "Close", "SMA_50"} \cup {ml_features[k] : k \in {1, 3, 8, 15, 21}}}

\* The frames given: at most one row has a NaN, in a feature that is used
\* (RSI_14) or in a column that is not (SMA_50); the last row may have an
\* infinite Volume_Change (the volume of the day before was zero).
TrainFrames ==
    {NoFrameGiven} \cup
    UNION {
        {[columns |-> cols,
          rows |-> [i \in 1..n |->
                      [Close |-> closes[i],
                       nan |-> IF i = nanRow THEN nanCols ELSE {},
                       inf |-> IF i = infRow THEN {"Volume_Change"} ELSE {}]],
          isNone |-> FALSE] :
            closes \in [1..n -> TrainCloses], nanRow \in 0..n, infRow \in {0, n},
            nanCols \in {{"RSI_14"}, {"SMA_50"}}, cols \in TrainColumnSets}
        : n \in 0..MaxTrainRows}

InitTrain ==
    /\ RunIdle
    /\ FetchIdle
    /\ train_df \in TrainFrames
    /\ train_pc = "start"
    /\ train_X = <<>>
    /\ train_y = <<>>
    /\ n_test = 0
    /\ fit_log = <<>>
    /\ best_model = "None"
    /\ best_accuracy = 0
    /\ train_return = <<>>
    /\ StratIdle
    /\ IndIdle

NextTrain == TrainPrepare \/ TrainFit \/ TrainReturn

SpecTrain == InitTrain /\ [][NextTrain]_vars

(***************************************************************************)
(* The strategy evaluator on its own: apply_enhanced_trading_strategy on a *)
(* frame.                                                                  *)
(***************************************************************************)

\* Bound: the rows of a frame after its quiet rows are up to MaxTailRows.
MaxTailRows == 2

\* A row on which no rule holds.
QuietRow ==
    [RSI_14 |-> 50, SMA_20 |-> 10, SMA_50 |-> 10, Volume |-> 2000, MACD |-> 0,
     MACDs |-> 0, STOCHk |-> 50, Distance_to_Support |-> 1]

\* The rows drawn: each rule holds or not; with a bullish MACD the support
\* distance confirms and the stochastic does or does not.
DrawnRows ==
    {[RSI_14 |-> rsi, SMA_20 |-> sma, SMA_50 |-> 10, Volume |-> vol, MACD |-> c[1],
      MACDs |-> 0, STOCHk |-> c[2], Distance_to_Support |-> c[3]] :
        rsi \in {25, 30}, sma \in {10, 11}, vol \in {1000, 3000},
        c \in {<<0 - 1, 50, 1>>, <<1, 15, 3>>, <<1, 20, 3>>}}

\* The rows drawn before the last row: those of low RSI and high volume.
PriorRows == {r \in DrawnRows : r.RSI_14 = 25 /\ r.Volume = 3000}

\* The frames given: None, or some quiet rows followed by up to maxTail drawn
\* rows, the last of them any drawn row.  The frames with a column missing
\* have all their quiet rows.
StratFrames(maxTail) ==
    {NoFrameGiven} \cup
    {[columns |-> StrategyColumns, rows |-> [i \in 1..q |-> QuietRow], isNone |-> FALSE] :
        q \in {0, VolumeWindow - 1}} \cup
    UNION {
        {[columns |-> StrategyColumns,
          rows |-> [i \in 1..(q + n) |->
                      IF i <= q THEN QuietRow
                      ELSE IF i < q + n THEN prior[i - q] ELSE last],
          isNone |-> FALSE] :
            prior \in [1..(n - 1) -> PriorRows], last \in DrawnRows,
            q \in {0, VolumeWindow - 1}}
        : n \in 1..maxTail} \cup
    {[columns |-> StrategyColumns \ {missing},
      rows |-> [i \in 1..VolumeWindow |-> IF i < VolumeWindow THEN QuietRow ELSE last],
      isNone |-> FALSE] :
        last \in DrawnRows, missing \in {"RSI_14", "SMA_50"}}

InitStrat ==
    /\ RunIdle
    /\ FetchIdle
    /\ TrainIdle
    /\ strat_df \in StratFrames(MaxTailRows)
    /\ strat_pc = "start"
    /\ strat_signal = <<>>
    /\ buy_signals = <<>>
    /\ IndIdle

NextStrat == ApplyStrategy

SpecStrat == InitStrat /\ [][NextStrat]_vars

(***************************************************************************)
(* The indicator engine on its own: calculate_advanced_indicators on a     *)
(* frame of prices, then again on what it returned.                        *)
(***************************************************************************)

\* Bound: the longest frame given.
MaxIndRows == 130
\* Bound: the price patterns tried are 0..MaxShape.
MaxShape == 2

\* The lengths of the frames given: around the lengths the indicators need.
\* Of 49 or 65 rows 16 are returned, of 80 rows 31, on which a second call raises.
IndLengths == {0, 1, 16, 20, 30, 34, 40, 49, 50, 65, 80, 99, 100, MaxIndRows}

\* The rows where the volume is zero on two days running (0: nowhere).
ZeroVolumeAt == {0, 60, 110}

\* The stretches where the close stays at 100: <<first row, rows>>, for the
\* 20 days of a Bollinger window late in the frame, from the first row on, and
\* from before the 50th row, where the rows returned begin, to after the 100th.
FlatCloseAt == {<<0, 0>>, <<100, 20>>, <<1, 35>>, <<1, 40>>, <<45, 66>>}

\* A frame of n trading days: prices that wander around 100 and volumes around
\* 1000, consecutive dates.
PriceFrame(n, shape, zeroAt, flat) ==
    [isNone |-> FALSE,
     columns |-> BaseColumns,
     rows |-> [i \in 1..n |->
        LET close == IF i \in flat[1]..(flat[1] + flat[2] - 1) THEN 100
                     ELSE 100 + ((i * 7 + shape * 3) % 11) + ((i + shape) % 4)
            open == close - 1 + ((i + shape) % 3)
        IN  [Date |-> 1000 + i,
             Open |-> open,
             High |-> Max(open, close) + 1 + (i % 2),
             Low |-> Min(open, close) - 1 - ((i + shape) % 2),
             Close |-> close,
             Volume |-> IF zeroAt > 0 /\ i \in {zeroAt, zeroAt + 1} THEN 0
                        ELSE 1000 + 100 * ((i * 3 + shape) % 7),
             ind |-> NoKeys]]]

IndFrames ==
    {NoFrameGiven} \cup
    {PriceFrame(n, shape, zeroAt, <<0, 0>>) :
        n \in IndLengths, shape \in 0..MaxShape, zeroAt \in ZeroVolumeAt} \cup
    {PriceFrame(n, shape, 0, flat) :
        n \in {40, MaxIndRows}, shape \in 0..MaxShape, flat \in FlatCloseAt}

InitInd ==
    /\ RunIdle
    /\ FetchIdle
    /\ TrainIdle
    /\ StratIdle
    /\ ind_arg = NoFrameGiven
    /\ ind_ret \in IndFrames
    /\ ind_calls = 0
    /\ ind_raised = FALSE

NextInd == Enrich

SpecInd == InitInd /\ [][NextInd]_vars

(***************************************************************************)
(* Properties                                                              *)
(***************************************************************************)

\* The last call fell back: the download raised, was empty or had the wrong columns.
LiveFailed == fetch_call.live \in {"raise", "empty", "columns"}

\* C2: fetch_stock_data never returns None or an empty frame: with use_mock it
\* returns the generated frame without calling yf.download; without it, it calls
\* yf.download first and, when the download raises, is empty or cannot take the
\* six column names, it returns the generated frame of the same ticker and period.
C2_FetchNeverEmpty ==
    fetch_call # NoCall =>
        LET generated ==
                MockFrames[<<fetch_call.ticker, fetch_call.period, fetch_call.at, hashseed>>]
        IN  /\ fetch_result.rows # <<>>
            /\ fetch_call.use_mock =>
                    ~fetch_result.live_tried /\ fetch_result.rows = generated
            /\ ~fetch_call.use_mock => fetch_result.live_tried
            /\ LiveFailed => fetch_result.rows = generated
            /\ fetch_call.live = "usable" => fetch_result.rows = LiveRows

\* C2, witness: a download that raised was answered by the 130 generated rows
\* of a six-month period.
C2_Witness ==
    /\ fetch_call.live = "raise"
    /\ fetch_call.period = "6mo"
    /\ Len(fetch_result.rows) = 130

\* The last two mock generations of the process were for the same ticker and period.
SameMockRequest ==
    /\ fetch_result.mock
    /\ mock_prev # NoMock
    /\ mock_prev.ticker = fetch_call.ticker
    /\ mock_prev.period = fetch_call.period

\* C8, as stated: two mock generations for the same ticker and period in one
\* process are identical in every column of every row, Date included, whenever
\* the calls are made.
C8_MockFetchesIdentical == SameMockRequest => fetch_result.rows = mock_prev.rows

\* The label the claim gives a row that has a next row.
NextDayLabel(rows, i) == IF rows[i + 1].Close > rows[i].Close THEN 1 ELSE 0

\* C3: every row of the data that is split and fitted has a next row and
\* carries the label 1 if Close[i+1] > Close[i] else 0: the last row of the
\* frame, which has no next bar, is not among them.
C3_LastRowExcluded ==
    \A k \in 1..Len(train_X) :
        /\ train_X[k] < Len(train_df.rows)
        /\ train_y[k] = NextDayLabel(train_df.rows, train_X[k])

\* The models of the loop that were fitted and scored without raising.
Scored == {k \in 1..Len(fit_log) : ~fit_log[k].raised}

\* C7: once the loop is over, both models have been tried, whether or not the
\* other raised; the model returned is the scored one with the most correct
\* test predictions, the Decision Tree on a tie, with its accuracy in percent;
\* the empty result is returned when none was scored or none is above zero.
C7_BestModelSelected ==
    (train_pc = "done" /\ fit_log # <<>>) =>
        /\ Len(fit_log) = 2
        /\ fit_log[1].name = "Decision Tree"
        /\ fit_log[2].name = "Logistic Regression"
        /\ IF \A k \in Scored : fit_log[k].correct = 0
           THEN train_return = EmptyResult
           ELSE \E w \in Scored :
                  /\ \A k \in Scored : fit_log[k].correct <= fit_log[w].correct
                  /\ \A k \in Scored : fit_log[k].correct = fit_log[w].correct => w <= k
                  /\ train_return[1] = ModelClass(fit_log[w].name)
                  /\ train_return[2] * n_test <= fit_log[w].correct * 10000 + n_test
                  /\ train_return[2] * n_test >= fit_log[w].correct * 10000 - n_test

\* C7, witness: both models scored the same number (above zero) of correct
\* predictions and the Decision Tree was returned.
C7_Witness ==
    /\ train_pc = "done"
    /\ Len(fit_log) = 2
    /\ Scored = {1, 2}
    /\ fit_log[1].correct = fit_log[2].correct
    /\ fit_log[1].correct > 0
    /\ train_return[1] = "DecisionTreeClassifier"

\* C6: every Signal is 0, 1 or 2; a row with Signal 2 satisfies the four
\* conditions of a standard buy; the frame returned holds exactly the rows
\* with Signal > 0, in order, labelled BUY for 1 and STRONG_BUY for 2.
C6_StrongBuyImpliesBuy ==
    (strat_pc = "done" /\ strat_signal # <<>>) =>
        LET rows == strat_df.rows
        IN  /\ Len(strat_signal) = Len(rows)
            /\ \A i \in 1..Len(rows) :
                  /\ strat_signal[i] \in {0, 1, 2}
                  /\ strat_signal[i] = 2 =>
                        /\ rsi_oversold(rows, i)
                        /\ sma_crossover(rows, i)
                        /\ volume_confirm(rows, i)
                        /\ macd_bullish(rows, i)
                  /\ strat_signal[i] > 0 <=>
                        \E k \in 1..Len(buy_signals) : buy_signals[k].row = i
            /\ \A k \in 1..Len(buy_signals) :
                  /\ buy_signals[k].Signal = strat_signal[buy_signals[k].row]
                  /\ buy_signals[k].Signal_Type =
                        (IF buy_signals[k].Signal = 1 THEN "BUY" ELSE "STRONG_BUY")
                  /\ k > 1 => buy_signals[k - 1].row < buy_signals[k].row

\* C6, witness: a frame whose last row is a strong buy, returned as STRONG_BUY.
C6_Witness ==
    /\ strat_pc = "done"
    /\ Len(strat_signal) = VolumeWindow
    /\ strat_signal[VolumeWindow] = 2
    /\ Len(buy_signals) = 1
    /\ buy_signals[1].Signal_Type = "STRONG_BUY"

\* The row of a frame with a given date.
RowOf(df, date) == CHOOSE r \in Range(df.rows) : r.Date = date

\* The columns computed by value.
ValueColumns == {SmaShort, SmaLong, "OBV"} \cup CustomColumns \cup WindowLibColumns

\* The columns computed from the row alone, and from a window of rows.
RowColumns == {"High_Low_Pct", "Open_Close_Pct"}
WindowColumns == (ValueColumns \ RowColumns) \ {"OBV"}

\* The dates of a frame follow one another: no row is missing between two rows.
Consecutive(df) ==
    \A i \in 1..(Len(df.rows) - 1) : df.rows[i + 1].Date = df.rows[i].Date + 1

\* The last call was given the frame the call before returned.
RanOnOwnOutput == ind_calls >= 2 /\ ~ind_arg.isNone

\* C9, as stated: a run of calculate_advanced_indicators on its own output
\* does not return None and leaves every column computed before unchanged on
\* the rows it returns.
C9_SecondRunChangesNothing ==
    RanOnOwnOutput =>
        /\ ~ind_ret.isNone
        /\ \A j \in 1..Len(ind_ret.rows) :
              LET r == ind_ret.rows[j]
                  a == RowOf(ind_arg, r.Date)
              IN  \A c \in DOMAIN a.ind \cap ValueColumns : r.ind[c] = a.ind[c]

\* C9, amended: a run on its own output of n rows returns None when n = 0 and
\* when n is 14..17 or 26..33 (pandas_ta's stoch or macd raises); otherwise it
\* returns a frame whose rows are rows of that output other than the first,
\* none of them when n < 20.  On the rows returned the columns computed from
\* the row alone are unchanged; when the output has no gap between its rows,
\* so are the moving averages, the Bollinger, stochastic and Williams columns,
\* support, resistance, distances and one-day changes, and OBV, summed again
\* from the output's first row, is the earlier OBV less the earlier OBV of
\* that row plus that row's volume.
C9_SecondRunKeepsWindowColumns ==
    RanOnOwnOutput =>
        LET n == Len(ind_arg.rows)
            first == ind_arg.rows[1]
        IN  /\ ind_ret.isNone <=> (n = 0 \/ n \in 14..17 \/ n \in 26..33)
            /\ ~ind_ret.isNone =>
                /\ n < 20 => ind_ret.rows = <<>>
                /\ \A j \in 1..Len(ind_ret.rows) :
                      /\ \E i \in 2..n : ind_arg.rows[i].Date = ind_ret.rows[j].Date
                      /\ LET r == ind_ret.rows[j]
                             a == RowOf(ind_arg, r.Date)
                         IN  /\ \A c \in RowColumns : r.ind[c] = a.ind[c]
                             /\ Consecutive(ind_arg) =>
                                   /\ \A c \in DOMAIN a.ind \cap WindowColumns :
                                         r.ind[c] = a.ind[c]
                                   /\ r.ind["OBV"] =
                                         Num(a.ind["OBV"][1] - first.ind["OBV"][1]
                                               + first.Volume)

\* C9, witness: a second run returned rows whose SMA_50 is what it was and
\* whose OBV is not.
C9_Witness ==
    /\ ind_calls = 2
    /\ ~ind_ret.isNone
    /\ ind_ret.rows # <<>>
    /\ LET r == ind_ret.rows[1]
           a == RowOf(ind_arg, r.Date)
       IN  /\ r.ind[SmaLong] = a.ind[SmaLong]
           /\ r.ind[SmaLong] # NaN
           /\ r.ind["OBV"] # a.ind["OBV"]

\* C10: a call that succeeds returns, in their order, exactly the rows of the
\* enriched frame that have no NaN in any column, with the prices they had;
\* a call on None or an empty frame, or in which a computation raises,
\* returns None.
C10_TrimKeepsDefinedRows ==
    ind_calls >= 1 =>
        IF ind_arg.isNone \/ ind_arg.rows = <<>> \/ ind_raised
        THEN ind_ret.isNone
        ELSE LET full == Enriched(ind_arg).rows
                 out == ind_ret.rows
             IN  /\ ~ind_ret.isNone
                 /\ \A j \in 1..Len(out) : \A c \in DOMAIN out[j].ind : out[j].ind[c] # NaN
                 /\ \A j \in 1..(Len(out) - 1) : out[j].Date < out[j + 1].Date
                 /\ \A i \in 1..Len(full) :
                       (\A c \in DOMAIN full[i].ind : full[i].ind[c] # NaN)
                         <=> (\E j \in 1..Len(out) : out[j] = full[i])
                 /\ \A j \in 1..Len(out) :
                       \E i \in 1..Len(ind_arg.rows) :
                         LET a == ind_arg.rows[i]
                         IN  /\ a.Date = out[j].Date /\ a.Open = out[j].Open
                             /\ a.High = out[j].High /\ a.Low = out[j].Low
                             /\ a.Close = out[j].Close /\ a.Volume = out[j].Volume

\* C10, witness: of 100 rows given, the 49 warm-up rows of SMA_50 and a later
\* row (a volume change of 0/0) were dropped.
C10_Witness ==
    /\ ind_calls = 1
    /\ Len(ind_arg.rows) = 100
    /\ ~ind_ret.isNone
    /\ Len(ind_ret.rows) = 50
    /\ ind_ret.rows[1].Date = 1050
    /\ \E i \in 51..100 : Enriched(ind_arg).rows[i].ind["Volume_Change"] = NaN

\* The candidate features a frame given to the trainer has.
PresentCandidates == Range(ml_features) \cap train_df.columns

\* The place of a candidate feature in the candidate list.
CandidateIndex(f) == CHOOSE i \in 1..Len(ml_features) : ml_features[i] = f

\* C11: with fewer than 5 of the 21 candidate columns in the frame, the
\* trainer returns the empty result before any split or fit; with 5 or more,
\* the features used are exactly the candidates present, in the order of the
\* candidate list.
C11_FeatureGuard ==
    (train_pc = "done" /\ ~train_df.isNone /\ train_df.rows # <<>>) =>
        LET present == PresentCandidates
        IN  IF Cardinality(present) < 5
            THEN /\ train_return = EmptyResult
                 /\ train_X = <<>>
                 /\ train_y = <<>>
                 /\ n_test = 0
                 /\ fit_log = <<>>
            ELSE train_return # EmptyResult =>
                    LET used == train_return[3].features_used
                    IN  /\ Range(used) = present
                        /\ \A a \in 1..(Len(used) - 1) :
                              CandidateIndex(used[a]) < CandidateIndex(used[a + 1])

\* C11, witness: a frame of several rows with exactly four candidate columns
\* was given and the empty result returned with nothing split or fitted.
C11_Witness ==
    /\ train_pc = "done"
    /\ Len(train_df.rows) >= 4
    /\ Cardinality(PresentCandidates) = 4
    /\ train_return = EmptyResult
    /\ train_X = <<>>
    /\ fit_log = <<>>

\* The tickers of the run for which process_stock returned an enriched frame.
Enriched_Tickers == {k \in 1..Len(run_log) : run_log[k][1] # "None"}

\* C12: at the end of a run the count reported as processed successfully is
\* the number of tickers for which process_stock returned an enriched frame;
\* a ticker for which it returned only None is not counted.
C12_SuccessfulCount ==
    RunCompleted => successful_stocks = Cardinality(Enriched_Tickers)

\* C13: apply_enhanced_trading_strategy never gives Signal > 0 to two
\* consecutive rows of a frame, whatever the other conditions are.
C13_NoConsecutiveSignals ==
    strat_pc = "done" =>
        \A i \in 1..(Len(strat_signal) - 1) :
            ~(strat_signal[i] > 0 /\ strat_signal[i + 1] > 0)

\* C13, witness: a row has a signal, and the row after it, on which the RSI is
\* oversold, the volume confirms, the MACD is bullish and SMA_20 is still above
\* SMA_50, has none.
C13_Witness ==
    /\ strat_pc = "done"
    /\ \E i \in 1..(Len(strat_signal) - 1) :
          /\ strat_signal[i] > 0
          /\ strat_signal[i + 1] = 0
          /\ rsi_oversold(strat_df.rows, i + 1)
          /\ volume_confirm(strat_df.rows, i + 1)
          /\ macd_bullish(strat_df.rows, i + 1)
          /\ strat_df.rows[i + 1].SMA_20 > strat_df.rows[i + 1].SMA_50

====
